---- MODULE Spec2Model ----
(***************************************************************************)
(* GitHubDownloader (src/github_downloader.py): a crawler that mirrors a   *)
(* repository's file tree by scraping the rendered web pages.              *)
(*                                                                         *)
(* The model has one main thread (start -> crawl_directory, recursive) and *)
(* the ThreadPoolExecutor workers that run _process_file.  The remote      *)
(* repository, the local disk and the transient network faults are the     *)
(* environment.                                                            *)
(***************************************************************************)
EXTENDS Integers, Sequences, FiniteSets, TLC

(***************************************************************************)
(* Bounds of the model and program constants.                              *)
(***************************************************************************)
\* number of text files in the flat repository
NFlat == 3
\* number of times the program is run against the same destination
MaxRuns == 2
\* number of requests that may fail transiently
MaxFaults == 1
\* depth of the crawl_directory recursion the interpreter allows (its recursion limit)
MaxDepth == 5
\* longest repo_url path, in tokens
MaxLen == 4
\* most lines of a document's payload or code table
MaxLines == 2
\* documents scraped one after another
MaxScrapes == 2
\* ThreadPoolExecutor(max_workers=3)
max_workers == 3

\* a pool of one thread more
OneMore == max_workers + 1
\* the threads the executor may start
PoolSize == max_workers
Workers == 1 .. PoolSize

(***************************************************************************)
(* Remote documents.  A blob page is described by what the three           *)
(* extraction strategies of _scrape_file_content can find in it.           *)
(***************************************************************************)
Blob(hasRaw, rawLines, rows, hasTextarea, textarea, rawLink) ==
    [hasRaw |-> hasRaw, rawLines |-> rawLines, rows |-> rows,
     hasTextarea |-> hasTextarea, textarea |-> textarea, rawLink |-> rawLink]

JsonBlob(lines) == Blob(TRUE, lines, <<>>, FALSE, "", FALSE)
TableBlob(rows) == Blob(FALSE, <<>>, rows, FALSE, "", FALSE)
TextareaBlob(t) == Blob(FALSE, <<>>, <<>>, TRUE, t, FALSE)
\* only a raw/download affordance: a binary file
BinaryBlob      == Blob(FALSE, <<>>, <<>>, FALSE, "", TRUE)
\* nothing a strategy matches and no raw/download affordance: an empty file
EmptyBlob       == Blob(FALSE, <<>>, <<>>, FALSE, "", FALSE)

FlatNames == <<"t1", "t2", "t3", "t4", "t5">>
FlatPaths == {FlatNames[i] : i \in 1 .. NFlat}
BinaryPaths == {"b1", "b2"}
EmptyPaths == {"e1"}
FilePaths == {FlatNames[i] : i \in 1 .. Len(FlatNames)} \cup BinaryPaths \cup EmptyPaths
DirPaths == {"", "d1", "d2", "d3"}
Paths == FilePaths \cup DirPaths

RemoteDocs ==
    [p \in FilePaths |->
        CASE p = "t1" -> JsonBlob(<<"hello">>)
          [] p = "t2" -> TableBlob(<<"ab", "c">>)
          [] p = "t3" -> TextareaBlob("xyz")
          [] p = "t4" -> JsonBlob(<<"a", "b">>)
          [] p = "t5" -> TableBlob(<<"q">>)
          [] p \in BinaryPaths -> BinaryBlob
          [] OTHER -> EmptyBlob]

(***************************************************************************)
(* Remote directory pages.  A page carries the embedded JSON payload       *)
(* (payload.tree.items) when it has one, and the a.js-navigation-open      *)
(* anchors of the rendered markup.                                         *)
(***************************************************************************)
JsonItem(path, contentType) == [path |-> path, contentType |-> contentType]

\* An anchor's href: /<repo>/<kind>/<branch>/<path>; quoted: the path is
\* percent-encoded in the href; parent: the href ends in "/..".
Href(own, kind, br, path, quoted, parent) ==
    [own |-> own, kind |-> kind, branch |-> br, path |-> path,
     quoted |-> quoted, parent |-> parent]

Page(hasPayload, items, links) ==
    [hasPayload |-> hasPayload, items |-> items, links |-> links]

JsonPage(items) == Page(TRUE, items, <<>>)
HtmlPage(links) == Page(FALSE, <<>>, links)

FlatItems == [i \in 1 .. NFlat |-> JsonItem(FlatNames[i], "file")]

\* The trees a repository may have; each maps a directory path to the page
\* served for it on branch b.  A directory that is linked but absent answers 404.
TreeNames == {"flat", "dup", "sib", "bin", "wide", "none"}

Tree(name, b) ==
    CASE name = "flat" ->
            [p \in {""} |-> JsonPage(FlatItems)]
      [] name = "dup" ->
            [p \in {""} |-> HtmlPage(<<
                Href(TRUE, "blob", b, "t1", FALSE, FALSE),
                Href(TRUE, "commit", b, "t1", FALSE, FALSE),
                Href(TRUE, "blob", b, "t1", TRUE, FALSE),
                Href(TRUE, "tree", b, "", FALSE, TRUE),
                Href(TRUE, "blob", "gh-pages", "t2", FALSE, FALSE),
                Href(FALSE, "blob", b, "t2", FALSE, FALSE),
                Href(TRUE, "blob", b, "b1", FALSE, FALSE) >>)]
      [] name = "sib" ->
            [p \in {"", "d1", "d2"} |->
                CASE p = "" -> JsonPage(<<JsonItem("d1", "directory"),
                                          JsonItem("d3", "directory"),
                                          JsonItem("d2", "directory")>>)
                  [] p = "d1" -> JsonPage(<<JsonItem("t1", "file"),
                                            JsonItem("d1", "directory"),
                                            JsonItem("e1", "file")>>)
                  [] OTHER -> JsonPage(<<JsonItem("t1", "file"),
                                         JsonItem("d1", "directory"),
                                         JsonItem("t2", "file"),
                                         JsonItem("", "directory")>>)]
      [] name = "bin" ->
            [p \in {""} |-> JsonPage(<<JsonItem("b1", "file"),
                                       JsonItem("b2", "file")>>)]
      [] name = "wide" ->
            [p \in {""} |-> JsonPage(<<JsonItem("b1", "file"),
                                       JsonItem("e1", "file"),
                                       JsonItem("b2", "file"),
                                       JsonItem("t1", "file")>>)]
      [] OTHER ->
            [p \in {""} |-> JsonPage(<<>>)]

Branches == {"main", "master"}

\* The remote repository: which branches exist and the tree they hold.
Worlds == [branches : {{"main"}, {"master"}, {}}, tree : TreeNames]

(***************************************************************************)
(* Locators.  item_url and start_root are strings built from the item type,*)
(* the branch and the path; a scraped href keeps its percent-encoding.     *)
(***************************************************************************)
Url(type, br, path, quoted) ==
    [type |-> type, branch |-> br, path |-> path, quoted |-> quoted]

start_root(br) == Url("tree", br, "", FALSE)

\* what follows the branch in an item's locator: "/" and the path; for the
\* repository root that is a bare "/", which start_root does not end in
UrlTail(path) == IF path = "" THEN "/" ELSE path
\* the directory or file a locator names
PathOf(url) == IF url.path = "/" THEN "" ELSE url.path

Urls == [type : {"tree", "blob"}, branch : Branches, path : Paths \cup {"/"}, quoted : BOOLEAN]

(***************************************************************************)
(* The network.  What the remote answers to a request when nothing goes    *)
(* wrong, and the transient failures a request may meet instead.           *)
(***************************************************************************)
Response(status, body) == [status |-> status, body |-> body]

NoBody == EmptyBlob

TrueResponse(w, url) ==
    IF url.branch \notin w.branches
    THEN Response("NotFound", NoBody)
    ELSE IF url.type = "tree"
         THEN IF PathOf(url) \in DOMAIN Tree(w.tree, url.branch)
              THEN Response("OK", Tree(w.tree, url.branch)[PathOf(url)])
              ELSE Response("NotFound", NoBody)
         ELSE IF PathOf(url) \in FilePaths
              THEN Response("OK", RemoteDocs[PathOf(url)])
              ELSE Response("NotFound", NoBody)

\* requests.get raises on a timeout; raise_for_status raises on 429 and 5xx
FaultKinds == {"Timeout", "RateLimited"}

\* _get_page_content: the parsed page, or None on a 404 and on any exception
get_page_content(resp) ==
    IF resp.status = "OK"
    THEN [ok |-> TRUE, soup |-> resp.body]
    ELSE [ok |-> FALSE, soup |-> NoBody]

(***************************************************************************)
(* _extract_items_from_payload                                             *)
(***************************************************************************)
Item(type, path, url) == [type |-> type, path |-> path, url |-> url]

\* strategy 1: the items of the embedded JSON payload
PayloadItem(it, br) ==
    LET item_type == IF it.contentType = "directory" THEN "tree" ELSE "blob"
    IN Item(item_type, it.path, Url(item_type, br, UrlTail(it.path), FALSE))

\* strategy 2: which anchors of the markup are entries of the repository
LinkKept(l, br) ==
    /\ l.kind \notin {"commit", "commits", "blame"}
    /\ ~l.parent
    /\ l.own
    /\ l.kind \in {"blob", "tree"}
    /\ l.branch = br

LinkItem(l) == Item(l.kind, l.path, Url(l.kind, l.branch, UrlTail(l.path), l.quoted))

RECURSIVE LinkItems(_, _)
LinkItems(links, br) ==
    IF links = <<>> THEN <<>>
    ELSE IF LinkKept(Head(links), br)
         THEN <<LinkItem(Head(links))>> \o LinkItems(Tail(links), br)
         ELSE LinkItems(Tail(links), br)

extract_items_from_payload(soup, br) ==
    IF soup.hasPayload
    THEN [i \in 1 .. Len(soup.items) |-> PayloadItem(soup.items[i], br)]
    ELSE LinkItems(soup.links, br)

RECURSIVE OfType(_, _)
OfType(items, type) ==
    IF items = <<>> THEN <<>>
    ELSE IF Head(items).type = type
         THEN <<Head(items)>> \o OfType(Tail(items), type)
         ELSE OfType(Tail(items), type)

(***************************************************************************)
(* _scrape_file_content                                                    *)
(***************************************************************************)
\* '\n'.join(lines)
RECURSIVE Join(_)
Join(lines) ==
    IF lines = <<>> THEN ""
    ELSE IF Len(lines) = 1 THEN lines[1]
         ELSE lines[1] \o "\n" \o Join(Tail(lines))

Content(ok, text) == [ok |-> ok, text |-> text]
None == Content(FALSE, "")

\* the code table is tried before the payload
TableFirst(soup) ==
    IF soup.rows # <<>> THEN Content(TRUE, Join(soup.rows))
    ELSE IF soup.hasRaw THEN Content(TRUE, Join(soup.rawLines))
    ELSE IF soup.hasTextarea THEN Content(TRUE, soup.textarea)
    ELSE None

ExtractText(soup) ==
    IF soup.hasRaw THEN Content(TRUE, Join(soup.rawLines))
    ELSE IF soup.rows # <<>> THEN Content(TRUE, Join(soup.rows))
    ELSE IF soup.hasTextarea THEN Content(TRUE, soup.textarea)
    ELSE None

scrape_file_content(resp) ==
    LET page == get_page_content(resp)
    IN IF ~page.ok THEN None ELSE ExtractText(page.soup)

(***************************************************************************)
(* State.                                                                  *)
(***************************************************************************)
VARIABLES
    repo_url,   \* the path of the repo_url argument, as a sequence of tokens
    owner,      \* self.owner
    repo,       \* self.repo
    ctor,       \* where __init__ is: "new", "parsed", "ready", or the exception it raised
    io,         \* network requests and filesystem operations made by __init__
    soup,       \* the document _scrape_file_content was last given
    fetched,    \* the status of the request that fetched it
    scraped,    \* what _scrape_file_content returned for it
    nScraped,   \* how many documents have been scraped so far
    world,      \* the remote repository (fixed during a behaviour)
    branch0,    \* the branch argument of the constructor
    explicit,   \* whether the caller supplied that branch (argv[2]) or it is the default
    branch,     \* self.branch
    run,        \* which run against the destination this is
    mainpc,     \* where start() is: "start", "crawl", "done"
    stack,      \* the call stack of crawl_directory
    visited,    \* self.visited_dirs
    queue,      \* tasks submitted to the executor and not yet taken by a worker
    workers,    \* the pool workers: position in _process_file, item, local values
    stats,      \* self.stats
    disk,       \* the files under output_dir
    faults,     \* transient request failures met so far
    faults0,    \* the value of faults when this run started
    outcome,    \* how start() ended: "none" while running, "summary"
    probe,      \* status of the request start() made for start_root
    rootFetch,  \* status of the request crawl_directory made for start_root
    emitted,    \* per path, the items _extract_items_from_payload returned in this run
    listed,     \* directory locators whose listing was fetched and parsed
    failed,     \* directory locators whose listing request failed
    nFetch,     \* per path, content requests made by _process_file in this run
    nWrite,     \* per path, writes of the destination file in this run
    nInc,       \* per path, increments of stats['files'] in this run
    nNone,      \* per path, tasks of this run whose content was None
    nDone,      \* per path, tasks of this run that ended (returned or raised)
    nFailed,    \* per path, tasks of this run that met a request or filesystem failure
    excs,       \* futures of this run that hold an exception
    requested,  \* the locators crawl_directory has requested in this run, in order
    prevClean,  \* whether the previous run met no transient failure
    prevDisk    \* the disk as the previous run left it

vars == <<repo_url, owner, repo, ctor, io, soup, fetched, scraped, nScraped,
          world, branch0, explicit, branch, run, mainpc, stack, visited, queue,
          workers, stats, disk, faults, faults0, outcome, probe, rootFetch, emitted,
          listed, failed, nFetch, nWrite, nInc, nNone, nDone, nFailed, excs,
          requested, prevClean, prevDisk>>

ctorVars == <<repo_url, owner, repo, ctor, io>>
scrapeVars == <<soup, fetched, scraped, nScraped>>
envVars == <<ctorVars, scrapeVars, world, branch0, explicit>>
ghostRun == <<faults0, prevClean, prevDisk, requested>>
auxVars == <<nFailed, excs>>
runVars == <<branch, run, mainpc, stack, visited, queue, workers, stats, disk,
             faults, outcome, probe, rootFetch, emitted, listed, failed, nFetch,
             nWrite, nInc, nNone, nDone, ghostRun, auxVars>>

File(exists, text) == [exists |-> exists, text |-> text]
NoFile == File(FALSE, "")

ZeroStats == [files |-> 0, dirs |-> 0, errors |-> 0, size |-> 0, skipped |-> 0]
ZeroCount == [p \in Paths |-> 0]

Idle == [pc |-> "idle", item |-> Item("blob", "", start_root("main")),
         content |-> None, tmp |-> 0]

Frame(url) == [pc |-> "enter", url |-> url, dirs |-> <<>>]

Bump(f, p) == [f EXCEPT ![p] = @ + 1]

\* The constructor arguments: the default branch, or a branch given by the caller.
Arguments == {<<"main", FALSE>>, <<"main", TRUE>>, <<"master", TRUE>>}

\* the state __init__ leaves for https://github.com/a/a
Constructed ==
    /\ repo_url = <<"/", "a", "/", "a">>
    /\ owner = <<"a">>
    /\ repo = <<"a">>
    /\ ctor = "ready"
    /\ io = 1

\* no document has been scraped yet
NoDocument ==
    /\ soup = NoBody
    /\ fetched = "none"
    /\ scraped = None
    /\ nScraped = 0

\* self.branch, self.stats, self.visited_dirs and an empty destination
Fresh ==
    /\ branch = branch0
    /\ run = 1
    /\ mainpc = "start"
    /\ stack = <<>>
    /\ visited = {}
    /\ queue = <<>>
    /\ workers = [w \in Workers |-> Idle]
    /\ stats = ZeroStats
    /\ disk = [p \in FilePaths |-> NoFile]
    /\ faults = 0
    /\ faults0 = 0
    /\ outcome = "none"
    /\ probe = "none"
    /\ rootFetch = "none"
    /\ emitted = ZeroCount
    /\ listed = {}
    /\ failed = {}
    /\ nFetch = ZeroCount
    /\ nWrite = ZeroCount
    /\ nInc = ZeroCount
    /\ nNone = ZeroCount
    /\ nDone = ZeroCount
    /\ nFailed = ZeroCount
    /\ excs = 0
    /\ prevClean = FALSE
    /\ prevDisk = disk
    /\ requested = <<>>

Init ==
    /\ world \in Worlds
    /\ \E a \in Arguments : branch0 = a[1] /\ explicit = a[2]
    /\ Constructed
    /\ NoDocument
    /\ Fresh

(***************************************************************************)
(* self.session.get(url): the remote's answer, or a transient failure.     *)
(***************************************************************************)
Answers(url) ==
    {TrueResponse(world, url)} \cup {Response(k, NoBody) : k \in FaultKinds}

Request(url, resp) ==
    \/ /\ resp = TrueResponse(world, url)
       /\ faults' = faults
    \/ /\ resp.status \in FaultKinds
       /\ faults < MaxFaults
       /\ faults' = faults + 1

(***************************************************************************)
(* start(): the request for start_root and the switch to 'master'.         *)
(***************************************************************************)
\* if self._get_page_content(start_root) is None: if self.branch == 'main': ...
FallbackBranch(page, br) ==
    IF ~page.ok /\ br = "main" THEN "master" ELSE br

start ==
    /\ mainpc = "start"
    /\ \E resp \in Answers(start_root(branch)) :
          /\ Request(start_root(branch), resp)
          /\ probe' = resp.status
          /\ branch' = FallbackBranch(get_page_content(resp), branch)
    /\ stack' = <<Frame(start_root(branch'))>>
    /\ mainpc' = "crawl"
    /\ UNCHANGED <<envVars, ghostRun, auxVars, run, visited, queue, workers, stats, disk,
                   outcome, rootFetch, emitted, listed, failed,
                   nFetch, nWrite, nInc, nNone, nDone>>

(***************************************************************************)
(* crawl_directory                                                         *)
(***************************************************************************)
Top == stack[Len(stack)]
Pop(stk) == SubSeq(stk, 1, Len(stk) - 1)
SetTop(stk, frame) == [stk EXCEPT ![Len(stk)] = frame]

\* every locator is taken for a new one
NeverVisited(vis, url) == FALSE

\* if dir_url in self.visited_dirs
AlreadyVisited(vis, url) == url \in vis

\* the locator is not recorded
Forget(vis, url) == vis

\* self.visited_dirs.add(dir_url)
MarkVisited(vis, url) == vis \cup {url}

\* a failed listing unwinds every caller, as an uncaught exception would
AbortCrawl(stk) == <<>>

\* if not soup: return      (back to the caller's loop over dirs_to_visit)
ReturnNoListing(stk) == Pop(stk)

RECURSIVE Count(_, _)
Count(count, items) ==
    IF items = <<>> THEN count
    ELSE Count(Bump(count, Head(items).path), Tail(items))

UrlsOf(items) == [i \in 1 .. Len(items) |-> items[i].url]

\* the tasks handed to the executor for a directory's items
Submitted(items) == OfType(items, "blob")

\* the visited check, the listing request, the split of the items and the
\* submission of the file tasks
crawl_directory ==
    /\ mainpc = "crawl"
    /\ stack # <<>>
    /\ Top.pc = "enter"
    /\ IF AlreadyVisited(visited, Top.url)
       THEN /\ stack' = Pop(stack)
            /\ UNCHANGED <<visited, requested, queue, faults, rootFetch, emitted,
                           listed, failed>>
       ELSE /\ visited' = MarkVisited(visited, Top.url)
            /\ requested' = Append(requested, Top.url)
            /\ \E resp \in Answers(Top.url) :
                  /\ Request(Top.url, resp)
                  /\ rootFetch' = IF Len(stack) = 1 THEN resp.status ELSE rootFetch
                  /\ LET page == get_page_content(resp)
                         items == extract_items_from_payload(page.soup, branch)
                         files == Submitted(items)
                         dirs == OfType(items, "tree")
                     IN IF ~page.ok
                        THEN /\ stack' = ReturnNoListing(stack)
                             /\ failed' = failed \cup {Top.url}
                             /\ UNCHANGED <<queue, emitted, listed>>
                        ELSE /\ queue' = files
                             /\ stack' = SetTop(stack,
                                    [pc |-> IF files # <<>> THEN "wait" ELSE "recurse",
                                     url |-> Top.url, dirs |-> UrlsOf(dirs)])
                             /\ emitted' = Count(emitted, items)
                             /\ listed' = listed \cup {Top.url}
                             /\ UNCHANGED failed
    /\ UNCHANGED <<envVars, faults0, prevClean, prevDisk, auxVars, branch, run, mainpc,
                   workers, stats, disk, outcome, probe, nFetch, nWrite, nInc, nNone,
                   nDone>>

AllIdle == \A w \in Workers : workers[w].pc = "idle"

\* the loop over the futures goes on without waiting for them
NoWait == TRUE

\* as_completed(futures) has yielded every future, and the executor's
\* shutdown(wait=True) has returned: no task is pending or running
AllCompleted == queue = <<>> /\ AllIdle

\* the loop calls f.result(): a task's exception is raised in the main thread
\* and unwinds every crawl_directory call
ReRaise(stk, n) == IF n > 0 THEN <<>> ELSE stk

\* for f in as_completed(futures): pass      (an exception a future holds is
\* never retrieved)
as_completed_pass(stk, n) == stk

crawl_wait ==
    /\ mainpc = "crawl"
    /\ stack # <<>>
    /\ Top.pc = "wait"
    /\ AllCompleted
    /\ stack' = as_completed_pass(SetTop(stack, [Top EXCEPT !.pc = "recurse"]), excs)
    /\ UNCHANGED <<envVars, ghostRun, auxVars, branch, run, mainpc, visited, queue, workers,
                   stats, disk, faults, outcome, probe, rootFetch, emitted, listed,
                   failed, nFetch, nWrite, nInc, nNone, nDone>>

\* for d in dirs_to_visit: self.crawl_directory(d['url'])
\* (a call beyond the interpreter's recursion limit raises RecursionError,
\* which nothing catches: start() ends with a traceback and no summary)
crawl_recurse ==
    /\ mainpc = "crawl"
    /\ stack # <<>>
    /\ Top.pc = "recurse"
    /\ IF Top.dirs = <<>>
       THEN /\ stack' = Pop(stack)
            /\ UNCHANGED <<mainpc, outcome>>
       ELSE IF Len(stack) < MaxDepth
       THEN /\ stack' = Append(SetTop(stack, [Top EXCEPT !.dirs = Tail(@)]),
                               Frame(Head(Top.dirs)))
            /\ UNCHANGED <<mainpc, outcome>>
       ELSE /\ stack' = <<>>
            /\ mainpc' = "crashed"
            /\ outcome' = "RecursionError"
    /\ UNCHANGED <<envVars, ghostRun, auxVars, branch, run, visited, queue, workers,
                   stats, disk, faults, probe, rootFetch, emitted, listed,
                   failed, nFetch, nWrite, nInc, nNone, nDone>>

\* start() after crawl_directory returned: the summary is printed
\* (start has no other way to end: it raises nothing and returns nothing)
Outcome == "summary"

finish ==
    /\ mainpc = "crawl"
    /\ stack = <<>>
    /\ mainpc' = "done"
    /\ outcome' = Outcome
    /\ UNCHANGED <<envVars, ghostRun, auxVars, branch, run, stack, visited, queue, workers,
                   stats, disk, faults, probe, rootFetch, emitted, listed,
                   failed, nFetch, nWrite, nInc, nNone, nDone>>

(***************************************************************************)
(* _process_file, run by a pool worker.  Every access to the disk and to   *)
(* self.stats is a step of its own: stats[k] += n reads, adds and stores.  *)
(***************************************************************************)
SetWorker(w, rec) == [workers EXCEPT ![w] = rec]

\* the exists check left out: every task fetches and writes
NeverSkip(file) == FALSE

\* if file_path.exists(): return
SkipExisting(file) == file.exists

\* a filesystem call (mkdir, open, write) may raise OSError
FsFails ==
    /\ faults < MaxFaults
    /\ faults' = faults + 1

\* a worker takes the next task: mkdir of the parents (which may raise, ending
\* the task with the exception kept in its future), the exists check, and
\* content = self._scrape_file_content(item['url'])
process_file ==
    \E w \in Workers :
        /\ workers[w].pc = "idle"
        /\ queue # <<>>
        /\ queue' = Tail(queue)
        /\ LET item == Head(queue)
           IN \/ /\ FsFails
                 /\ excs' = excs + 1
                 /\ nDone' = Bump(nDone, item.path)
                 /\ nFailed' = Bump(nFailed, item.path)
                 /\ UNCHANGED <<workers, nFetch, nNone>>
              \/ /\ excs' = excs
                 /\ IF SkipExisting(disk[item.path])
                    THEN /\ nDone' = Bump(nDone, item.path)
                         /\ UNCHANGED <<workers, faults, nFetch, nNone, nFailed>>
                    ELSE /\ \E resp \in Answers(item.url) :
                               /\ Request(item.url, resp)
                               /\ LET content == scrape_file_content(resp)
                                  IN /\ workers' = SetWorker(w, [Idle EXCEPT
                                             !.pc = IF content.ok THEN "write" ELSE "rdSkipped",
                                             !.item = item, !.content = content])
                                     /\ nNone' = IF content.ok THEN nNone
                                                 ELSE Bump(nNone, item.path)
                               /\ nFailed' = IF resp.status = "OK" THEN nFailed
                                             ELSE Bump(nFailed, item.path)
                         /\ nFetch' = Bump(nFetch, item.path)
                         /\ UNCHANGED nDone
        /\ UNCHANGED <<envVars, ghostRun, branch, run, mainpc, stack, visited,
                       stats, disk, outcome, probe, rootFetch, emitted, listed,
                       failed, nWrite, nInc>>

\* with open(file_path, 'w') as f: f.write(content); an OSError is caught by
\* the except clause, which prints and lets the task return
process_file_write ==
    \E w \in Workers :
        /\ workers[w].pc = "write"
        /\ \/ /\ disk' = [disk EXCEPT ![workers[w].item.path] =
                                File(TRUE, workers[w].content.text)]
              /\ nWrite' = Bump(nWrite, workers[w].item.path)
              /\ workers' = SetWorker(w, [workers[w] EXCEPT !.pc = "rdFiles"])
              /\ UNCHANGED <<faults, nDone, nFailed>>
           \/ /\ FsFails
              /\ nDone' = Bump(nDone, workers[w].item.path)
              /\ nFailed' = Bump(nFailed, workers[w].item.path)
              /\ workers' = SetWorker(w, Idle)
              /\ UNCHANGED <<disk, nWrite>>
        /\ UNCHANGED <<envVars, ghostRun, excs, branch, run, mainpc, stack, visited, queue,
                       stats, outcome, probe, rootFetch, emitted, listed,
                       failed, nFetch, nInc, nNone>>

\* the value stored by stats[k] += n, given the value that was read
Added(read, n) == read + n

\* self.stats['files'] += 1      (the read)
process_file_read_files ==
    \E w \in Workers :
        /\ workers[w].pc = "rdFiles"
        /\ workers' = SetWorker(w, [workers[w] EXCEPT !.pc = "wrFiles", !.tmp = stats.files])
        /\ UNCHANGED <<envVars, ghostRun, auxVars, branch, run, mainpc, stack, visited, queue,
                       stats, disk, faults, outcome, probe, rootFetch, emitted, listed,
                       failed, nFetch, nWrite, nInc, nNone, nDone>>

\* self.stats['files'] += 1      (the store)
process_file_store_files ==
    \E w \in Workers :
        /\ workers[w].pc = "wrFiles"
        /\ stats' = [stats EXCEPT !.files = Added(workers[w].tmp, 1)]
        /\ nInc' = Bump(nInc, workers[w].item.path)
        /\ workers' = SetWorker(w, [workers[w] EXCEPT !.pc = "rdSize", !.tmp = 0])
        /\ UNCHANGED <<envVars, ghostRun, auxVars, branch, run, mainpc, stack, visited, queue,
                       disk, faults, outcome, probe, rootFetch, emitted, listed,
                       failed, nFetch, nWrite, nNone, nDone>>

\* self.stats['size'] += len(content)      (the read)
process_file_read_size ==
    \E w \in Workers :
        /\ workers[w].pc = "rdSize"
        /\ workers' = SetWorker(w, [workers[w] EXCEPT !.pc = "wrSize", !.tmp = stats.size])
        /\ UNCHANGED <<envVars, ghostRun, auxVars, branch, run, mainpc, stack, visited, queue,
                       stats, disk, faults, outcome, probe, rootFetch, emitted, listed,
                       failed, nFetch, nWrite, nInc, nNone, nDone>>

\* self.stats['size'] += len(content)      (the store), and the task returns
process_file_store_size ==
    \E w \in Workers :
        /\ workers[w].pc = "wrSize"
        /\ stats' = [stats EXCEPT !.size = Added(workers[w].tmp, Len(workers[w].content.text))]
        /\ nDone' = Bump(nDone, workers[w].item.path)
        /\ workers' = SetWorker(w, Idle)
        /\ UNCHANGED <<envVars, ghostRun, auxVars, branch, run, mainpc, stack, visited, queue,
                       disk, faults, outcome, probe, rootFetch, emitted, listed,
                       failed, nFetch, nWrite, nInc, nNone>>

\* self.stats['skipped'] += 1      (the read)
process_file_read_skipped ==
    \E w \in Workers :
        /\ workers[w].pc = "rdSkipped"
        /\ workers' = SetWorker(w, [workers[w] EXCEPT !.pc = "wrSkipped", !.tmp = stats.skipped])
        /\ UNCHANGED <<envVars, ghostRun, auxVars, branch, run, mainpc, stack, visited, queue,
                       stats, disk, faults, outcome, probe, rootFetch, emitted, listed,
                       failed, nFetch, nWrite, nInc, nNone, nDone>>

\* self.stats['skipped'] += 1      (the store), and the task returns
process_file_store_skipped ==
    \E w \in Workers :
        /\ workers[w].pc = "wrSkipped"
        /\ stats' = [stats EXCEPT !.skipped = Added(workers[w].tmp, 1)]
        /\ nDone' = Bump(nDone, workers[w].item.path)
        /\ workers' = SetWorker(w, Idle)
        /\ UNCHANGED <<envVars, ghostRun, auxVars, branch, run, mainpc, stack, visited, queue,
                       disk, faults, outcome, probe, rootFetch, emitted, listed,
                       failed, nFetch, nWrite, nInc, nNone>>

(***************************************************************************)
(* The program is run again with the same arguments: __init__ makes a new  *)
(* object; the destination directory keeps what the last run wrote.        *)
(***************************************************************************)
rerun ==
    /\ mainpc = "done"
    /\ run < MaxRuns
    /\ run' = run + 1
    /\ branch' = branch0
    /\ stats' = ZeroStats
    /\ visited' = {}
    /\ mainpc' = "start"
    /\ outcome' = "none"
    /\ probe' = "none"
    /\ rootFetch' = "none"
    /\ faults0' = faults
    /\ emitted' = ZeroCount
    /\ listed' = {}
    /\ failed' = {}
    /\ nFetch' = ZeroCount
    /\ nWrite' = ZeroCount
    /\ nInc' = ZeroCount
    /\ nNone' = ZeroCount
    /\ nDone' = ZeroCount
    /\ nFailed' = ZeroCount
    /\ excs' = 0
    /\ prevClean' = (faults = faults0)
    /\ requested' = <<>>
    /\ prevDisk' = disk
    /\ UNCHANGED <<envVars, stack, queue, workers, disk, faults>>

Next ==
    \/ start
    \/ crawl_directory
    \/ crawl_wait
    \/ crawl_recurse
    \/ finish
    \/ process_file
    \/ process_file_write
    \/ process_file_read_files
    \/ process_file_store_files
    \/ process_file_read_size
    \/ process_file_store_size
    \/ process_file_read_skipped
    \/ process_file_store_skipped
    \/ rerun

Spec == Init /\ [][Next]_vars

(***************************************************************************)
(* __init__: the repository reference is parsed, then the connection is    *)
(* probed.  A path is a sequence of tokens: "/" is the separator, ".git"   *)
(* those four characters, "a" any other run of characters.                 *)
(***************************************************************************)
Tokens == {"/", "a", ".git"}
RepoUrls == UNION {[1 .. n -> Tokens] : n \in 0 .. MaxLen}

\* str.rstrip('/')
RECURSIVE rstrip(_)
rstrip(s) ==
    IF s # <<>> /\ s[Len(s)] = "/" THEN rstrip(SubSeq(s, 1, Len(s) - 1)) ELSE s

\* str.lstrip('/')
RECURSIVE lstrip(_)
lstrip(s) ==
    IF s # <<>> /\ s[1] = "/" THEN lstrip(Tail(s)) ELSE s

\* str.strip('/')
strip(s) == lstrip(rstrip(s))

\* str.split('/'): the pieces between separators, empty ones included
RECURSIVE split(_)
split(s) ==
    IF \A i \in 1 .. Len(s) : s[i] # "/"
    THEN <<s>>
    ELSE LET i == CHOOSE k \in 1 .. Len(s) :
                      s[k] = "/" /\ \A j \in 1 .. k - 1 : s[j] # "/"
         IN <<SubSeq(s, 1, i - 1)>> \o split(SubSeq(s, i + 1, Len(s)))

\* str.replace('.git', ''): every occurrence goes
replace_git(name) == SelectSeq(name, LAMBDA t : t # ".git")

\* urlparse(self.repo_url).path.strip('/').split('/'), self.repo_url being
\* repo_url.rstrip('/')
PathParts(url) == split(strip(rstrip(url)))

\* the reference is accepted whatever it holds
LessThanOne(parts) == Len(parts) < 1

\* if len(parts) < 2: raise ValueError
TooFew(parts) == Len(parts) < 2

\* self.owner, self.repo = self._parse_repo_url()
\* (parts[1] of a one-element list raises IndexError)
init_parse ==
    /\ ctor = "new"
    /\ LET parts == PathParts(repo_url)
       IN IF TooFew(parts)
          THEN /\ ctor' = "ValueError"
               /\ UNCHANGED <<owner, repo>>
          ELSE IF Len(parts) < 2
          THEN /\ ctor' = "IndexError"
               /\ UNCHANGED <<owner, repo>>
          ELSE /\ ctor' = "parsed"
               /\ owner' = parts[1]
               /\ repo' = replace_git(parts[2])
    /\ UNCHANGED <<repo_url, io, scrapeVars, world, branch0, explicit, runVars>>

\* what the first session.get of _check_connection meets
ConnectionResults == {"OK", "ProxyError", "SSLError", "SSLErrorTwice", "OtherError"}

\* _check_connection: one request; after an SSLError a second one, outside
\* any try, whose exception leaves the constructor
check_connection ==
    /\ ctor = "parsed"
    /\ \E r \in ConnectionResults :
           /\ io' = io + (IF r \in {"SSLError", "SSLErrorTwice"} THEN 2 ELSE 1)
           /\ ctor' = IF r = "SSLErrorTwice" THEN "SSLError" ELSE "ready"
    /\ UNCHANGED <<repo_url, owner, repo, scrapeVars, world, branch0, explicit, runVars>>

\* GitHubDownloader(url, dest, branch), for every reference up to MaxLen tokens
ParseInit ==
    /\ repo_url \in RepoUrls
    /\ owner = <<>>
    /\ repo = <<>>
    /\ ctor = "new"
    /\ io = 0
    /\ NoDocument
    /\ world = [branches |-> {"main"}, tree |-> "none"]
    /\ branch0 = "main"
    /\ explicit = FALSE
    /\ Fresh

ParseNext ==
    \/ init_parse
    \/ check_connection

ParseSpec == ParseInit /\ [][ParseNext]_vars

(***************************************************************************)
(* _scrape_file_content on one document after another.                     *)
(***************************************************************************)
LineSeqs == UNION {[1 .. n -> {"a", "b"}] : n \in 0 .. MaxLines}
Documents ==
    [hasRaw : BOOLEAN, rawLines : LineSeqs, rows : LineSeqs,
     hasTextarea : BOOLEAN, textarea : {"", "x"}, rawLink : {FALSE}]

\* what the request for a blob page may give
DocumentResponses ==
    {Response("OK", d) : d \in Documents}
    \cup {Response(st, NoBody) : st \in {"NotFound"} \cup FaultKinds}

scrape ==
    /\ nScraped < MaxScrapes
    /\ \E resp \in DocumentResponses :
           /\ soup' = resp.body
           /\ fetched' = resp.status
           /\ scraped' = scrape_file_content(resp)
    /\ nScraped' = nScraped + 1
    /\ UNCHANGED <<ctorVars, world, branch0, explicit, runVars>>

ScrapeInit ==
    /\ Constructed
    /\ NoDocument
    /\ world = [branches |-> {"main"}, tree |-> "none"]
    /\ branch0 = "main"
    /\ explicit = FALSE
    /\ Fresh

ScrapeSpec == ScrapeInit /\ [][scrape]_vars

(***************************************************************************)
(* Ctrl-C.  KeyboardInterrupt is raised in the main thread and nothing in  *)
(* the program catches it.  Inside the with-block of the executor it runs  *)
(* __exit__, which is shutdown(wait=True): the queued tasks are not        *)
(* cancelled, the workers go on taking them, and the exception goes on     *)
(* through start() once they have all ended.  Anywhere else it leaves      *)
(* start() at once.  The summary of start() is not reached.                *)
(***************************************************************************)
InExecutor == mainpc = "crawl" /\ stack # <<>> /\ Top.pc = "wait"

interrupt ==
    /\ mainpc \in {"start", "crawl"}
    /\ IF InExecutor
       THEN /\ mainpc' = "interrupted"
            /\ UNCHANGED <<stack, outcome>>
       ELSE /\ mainpc' = "killed"
            /\ stack' = <<>>
            /\ outcome' = "KeyboardInterrupt"
    /\ UNCHANGED <<envVars, ghostRun, auxVars, branch, run, visited, queue, workers,
                   stats, disk, faults, probe, rootFetch, emitted, listed,
                   failed, nFetch, nWrite, nInc, nNone, nDone>>

executor_exit ==
    /\ mainpc = "interrupted"
    /\ AllCompleted
    /\ mainpc' = "killed"
    /\ stack' = <<>>
    /\ outcome' = "KeyboardInterrupt"
    /\ UNCHANGED <<envVars, ghostRun, auxVars, branch, run, visited, queue, workers,
                   stats, disk, faults, probe, rootFetch, emitted, listed,
                   failed, nFetch, nWrite, nInc, nNone, nDone>>

NextInterrupt ==
    \/ Next
    \/ interrupt
    \/ executor_exit

InterruptSpec == Init /\ [][NextInterrupt]_vars

\* The main thread and the pool threads keep running: a request returns
\* (timeout=15), and the executor hands a queued task to a free worker.
MainStep == start \/ crawl_directory \/ crawl_wait \/ crawl_recurse \/ finish
WorkerStep ==
    \/ process_file
    \/ process_file_write
    \/ process_file_read_files
    \/ process_file_store_files
    \/ process_file_read_size
    \/ process_file_store_size
    \/ process_file_read_skipped
    \/ process_file_store_skipped

\* one run of the program
OneRun == MainStep \/ WorkerStep

\* the remote trees with links back to a directory itself, to a visited
\* sibling, to the parent or to the root, and the ones with nothing to list;
\* with no branch on the remote every request of the run fails
FairInit == Init /\ world.tree # "flat"

FairSpec == FairInit /\ [][OneRun]_vars /\ WF_vars(MainStep) /\ WF_vars(WorkerStep)

(***************************************************************************)
(* Properties.                                                             *)
(***************************************************************************)
Done == mainpc = "done"
Quiescent == queue = <<>> /\ AllIdle
\* no request of the current run met a transient failure
CleanRun == faults = faults0

RECURSIVE Sum(_, _)
Sum(f, S) ==
    IF S = {} THEN 0
    ELSE LET x == CHOOSE y \in S : TRUE IN f[x] + Sum(f, S \ {x})

\* C1: within one run, for every path at most one worker fetches the content
\* and writes the destination file, and stats['files'] is incremented at most
\* once for it.
C1_MaterializedAtMostOnce ==
    \A p \in FilePaths : nFetch[p] <= 1 /\ nWrite[p] <= 1 /\ nInc[p] <= 1

\* C2: the items returned by _extract_items_from_payload over a run have
\* pairwise-unique paths.
C2_UniquePaths ==
    \A p \in Paths : emitted[p] <= 1

\* the text _scrape_file_content recovers for a path, and the total length of
\* the flat repository's files
TextOf(p) == ExtractText(RemoteDocs[p]).text
FlatSize == Sum([p \in FlatPaths |-> Len(TextOf(p))], FlatPaths)

\* C3: for N distinct text files in one directory, once all tasks have
\* completed stats['files'] = N and stats['size'] is the sum of the written
\* lengths, in every interleaving of the workers.

C3_CountersExact ==
    (/\ Done
     /\ world.tree = "flat"
     /\ run = 1
     /\ CleanRun
     /\ listed # {})
    => (stats.files = NFlat /\ stats.size = FlatSize)

\* the text files a tree holds: the blob entries of its pages that a text
\* strategy matches
FileItemsOf(tree, b) ==
    UNION {{it.path : it \in {OfType(extract_items_from_payload(Tree(tree, b)[d], b), "blob")[i] :
                                i \in 1 .. Len(OfType(extract_items_from_payload(Tree(tree, b)[d], b), "blob"))}} :
           d \in DOMAIN Tree(tree, b)}
TextFilesOf(tree, b) == {p \in FileItemsOf(tree, b) : ExtractText(RemoteDocs[p]).ok}

\* C4: started on the default 'main', with the request for main's root
\* answered not-found and 'master' existing, start() crawls master: every text
\* file of master is written with its extracted content, stats['files'] is
\* their number and stats['errors'] is 0.
C4_FallbackMaterializes ==
    (/\ Done
     /\ run = 1
     /\ branch0 = "main" /\ ~explicit
     /\ probe = "NotFound"
     /\ "master" \in world.branches
     /\ CleanRun)
    => (/\ branch = "master"
        /\ \A p \in TextFilesOf(world.tree, "master") : disk[p] = File(TRUE, TextOf(p))
        /\ stats.files = Cardinality(TextFilesOf(world.tree, "master"))
        /\ stats.errors = 0)

\* C5: not-found for the root on the default branch and again on the alternate
\* branch ends the run with a RepositoryNotFoundError outcome.
C5_SecondNotFoundIsError ==
    (/\ Done
     /\ branch0 = "main" /\ ~explicit
     /\ probe = "NotFound"
     /\ rootFetch = "NotFound")
    => outcome = "RepositoryNotFoundError"

\* C6: within a run the branch changes at most once, before any discovery
\* request has been answered, and only when the discovery request was answered
\* not-found and the branch in use is the implicit default.
C6_SwitchOnlyOnNotFoundDefault ==
    [][(branch' # branch /\ run' = run)
       => (probe = "none" /\ probe' = "NotFound" /\ ~explicit)]_vars

\* the extraction results Binary and Empty: no text strategy matches, and the
\* page does or does not offer the raw/download affordance
IsBinary(doc) == ~ExtractText(doc).ok /\ doc.rawLink
IsEmpty(doc) == ~ExtractText(doc).ok /\ ~doc.rawLink

\* C7: a file whose page offers only the raw/download affordance leaves no
\* file at its destination, is not counted in stats['files'], and adds exactly
\* one to stats['skipped'].

C7_BinarySkippedOnce ==
    (/\ Quiescent
     /\ CleanRun
     /\ \A p \in FilePaths : nNone[p] > 0 => IsBinary(RemoteDocs[p]))
    => (/\ \A p \in FilePaths :
              nNone[p] > 0 => (~disk[p].exists /\ nInc[p] = 0)
        /\ stats.skipped = Sum(nNone, FilePaths))

\* C8: a file whose page matches no strategy and offers no raw/download
\* affordance gets a zero-length file at its destination.
C8_EmptyFileCreated ==
    \A p \in FilePaths :
        (IsEmpty(RemoteDocs[p]) /\ nDone[p] > 0 /\ CleanRun)
        => disk[p] = File(TRUE, "")

\* C9: in a second run against the same destination no file the first run
\* wrote is fetched again, written again or counted, and its content stays;
\* when the first run got every answer of the remote tree (no request failed),
\* the second run writes nothing at all: stats['files'] stays 0 and the disk is
\* as the first run left it.
C9_Idempotent ==
    run >= 2 =>
        /\ \A p \in FilePaths :
              prevDisk[p].exists
              => (nFetch[p] = 0 /\ nWrite[p] = 0 /\ nInc[p] = 0 /\ disk[p] = prevDisk[p])
        /\ prevClean
           => (/\ stats.files = 0
               /\ \A p \in FilePaths : nWrite[p] = 0 /\ nInc[p] = 0
               /\ disk = prevDisk)

C9_Witness ==
    /\ Done
    /\ run = 2
    /\ prevClean
    /\ \E p \in FilePaths : prevDisk[p].exists /\ nDone[p] > 0

\* the entries of a listed directory
ItemsAt(url) == extract_items_from_payload(TrueResponse(world, url).body, branch)

\* C10: a directory whose listing request fails is left as an empty
\* directory and the crawl goes on: at the end every directory entry of every
\* listed directory has had its listing requested, and every file entry has
\* had its task run to completion.

C10_SiblingsProcessed ==
    Done =>
        /\ \A url \in listed :
              \A i \in 1 .. Len(ItemsAt(url)) :
                  ItemsAt(url)[i].type = "tree"
                  => ItemsAt(url)[i].url \in listed \cup failed
        /\ \A p \in FilePaths : nDone[p] = emitted[p]

C10_Witness ==
    /\ Done
    /\ world.tree = "sib"
    /\ Url("tree", branch, "d1", FALSE) \in failed
    /\ Url("tree", branch, "d3", FALSE) \in failed
    /\ Url("tree", branch, "d2", FALSE) \in listed
    /\ nDone["t1"] = 1 /\ nDone["t2"] = 1
    /\ disk["t2"].exists

PastWait ==
    \/ Done
    \/ mainpc = "crawl" /\ stack # <<>> /\ Top.pc = "recurse"

\* C12: a failure of one file task (request failure, filesystem error, failure
\* of the parents' mkdir) aborts nothing: whenever the crawl is past a
\* directory's wait every task dispatched so far has ended, and at the end
\* every directory entry of every listed directory has had its listing
\* requested.
C12_FailureContained ==
    /\ PastWait => \A p \in FilePaths : nDone[p] = emitted[p]
    /\ (Done /\ Sum(nFailed, FilePaths) > 0)
       => \A url \in listed :
              \A i \in 1 .. Len(ItemsAt(url)) :
                  ItemsAt(url)[i].type = "tree" => ItemsAt(url)[i].url \in visited

C12_Witness ==
    /\ Done
    /\ world.tree = "sib"
    /\ excs = 1
    /\ nFailed["t1"] = 1
    /\ nDone["e1"] = 1
    /\ nNone["e1"] = 1
    /\ Url("tree", branch, "d2", FALSE) \in listed
    /\ disk["t2"].exists

\* C13: every run ends with the summary: from the start of start() the
\* program reaches the point where the statistics are printed, whatever the
\* listings link back to and whichever requests fail.
C13_Terminates ==
    (mainpc = "start") ~> (mainpc = "done" /\ outcome = "summary")

C13_Witness ==
    /\ Done
    /\ outcome = "summary"
    /\ world.tree = "sib"
    /\ \E u \in listed : u.path = "/"
    /\ emitted["d1"] >= 2

\* the main thread has received the interrupt
Interrupted == mainpc \in {"interrupted", "killed"}

\* C14: once the interrupt has arrived no queued file task is taken by a
\* worker and no listing is requested, the run ends with every task ended and
\* with the summary printed, and no file on the disk is removed.
C14_Cancellation ==
    [][/\ Interrupted => (queue' = queue /\ listed' = listed)
       /\ (~Interrupted /\ Interrupted') => \A p \in FilePaths : nFetch'[p] = nFetch[p]
       /\ mainpc' = "killed" => (AllIdle' /\ outcome' = "summary")
       /\ \A p \in FilePaths : disk[p].exists => disk'[p].exists]_vars

\* the non-empty segments of a path: its maximal runs without a separator
SegmentCount(url) ==
    Cardinality({i \in 1 .. Len(url) : url[i] # "/" /\ (i = 1 \/ url[i - 1] = "/")})

\* C15: when the path of the reference has fewer than two segments the
\* constructor ends with ValueError, and it has made no network request and
\* no filesystem operation by then.
C15_MalformedRejected ==
    (SegmentCount(repo_url) < 2 /\ ctor # "new") => (ctor = "ValueError" /\ io = 0)

C15_Witness ==
    /\ repo_url = <<"/", "a", "/">>
    /\ ctor = "ValueError"
    /\ io = 0

\* a name without its trailing '.git'
RemoveSuffix(name) ==
    IF name # <<>> /\ name[Len(name)] = ".git"
    THEN SubSeq(name, 1, Len(name) - 1)
    ELSE name

\* C16: once the reference is parsed the owner is the first segment of the
\* path and the repository name is the second segment without a trailing
\* '.git', every other '.git' in the name being kept.
C16_OnlySuffixRemoved ==
    ctor \in {"parsed", "ready", "SSLError"}
    => (/\ owner = PathParts(repo_url)[1]
        /\ repo = RemoveSuffix(PathParts(repo_url)[2]))

\* C17: the first strategy that matches the fetched document gives the
\* result, payload lines before code table before text area, for every
\* document whatever was scraped before it; a document none matches gives
\* None.
C17_FirstMatchWins ==
    fetched = "OK"
    => (/\ soup.hasRaw => scraped = Content(TRUE, Join(soup.rawLines))
        /\ (~soup.hasRaw /\ soup.rows # <<>>)
           => scraped = Content(TRUE, Join(soup.rows))
        /\ (~soup.hasRaw /\ soup.rows = <<>> /\ soup.hasTextarea)
           => scraped = Content(TRUE, soup.textarea)
        /\ (~soup.hasRaw /\ soup.rows = <<>> /\ ~soup.hasTextarea)
           => scraped = None)

C17_Witness ==
    /\ nScraped = 2
    /\ fetched = "OK"
    /\ soup.hasRaw /\ soup.rawLines = <<"a", "b">>
    /\ soup.rows = <<"b">> /\ soup.hasTextarea
    /\ scraped.text = "a\nb"

\* the pool workers that are running a file task
InFlight == {w \in DOMAIN workers : workers[w].pc # "idle"}

\* C18: at most max_workers file tasks are in flight at any moment, and what
\* is queued for the pool or run by a worker is always a file entry, never a
\* directory entry.
C18_BoundedPool ==
    /\ Cardinality(InFlight) <= max_workers
    /\ \A i \in 1 .. Len(queue) : queue[i].type = "blob"
    /\ \A w \in InFlight : workers[w].item.type = "blob"

C18_Witness ==
    /\ world.tree = "wide"
    /\ Cardinality(InFlight) = max_workers
    /\ queue # <<>>

\* C19: when start() has reached its summary no task is queued or running,
\* every task dispatched in the run has ended, and the counters no longer
\* change until the next run.
C19_WaitsForAll ==
    [][/\ Done' => (Quiescent' /\ \A p \in FilePaths : nDone'[p] = emitted'[p])
       /\ (Done /\ Done') => stats' = stats]_vars

C19_Witness ==
    /\ Done
    /\ world.tree = "wide"
    /\ Sum(nDone, FilePaths) = 4
    /\ stats.skipped >= 1

NoDuplicates(seq) ==
    \A i, j \in 1 .. Len(seq) : i # j => seq[i] # seq[j]

\* each crawl_directory call below the first is for a directory entry of the
\* listing its caller holds, the caller being in its loop over those entries
NestedCalls(stk) ==
    \A i \in 2 .. Len(stk) :
        /\ stk[i - 1].pc = "recurse"
        /\ \E k \in 1 .. Len(ItemsAt(stk[i - 1].url)) :
               /\ ItemsAt(stk[i - 1].url)[k].type = "tree"
               /\ ItemsAt(stk[i - 1].url)[k].url = stk[i].url

\* C20: within a run the visited set grows by one locator at a time, only in a
\* step of the main thread and only while no file task is queued or running;
\* a listing is requested only then too, never twice for one locator, and
\* always from the innermost call of the depth-first recursion.
C20_SequentialDiscovery ==
    [][run' = run
       => (/\ visited' # visited
              => (/\ Quiescent /\ mainpc = "crawl"
                  /\ Cardinality(visited') = Cardinality(visited) + 1
                  /\ workers' = workers)
           /\ requested' # requested
              => (/\ Quiescent
                  /\ NoDuplicates(requested')
                  /\ requested'[Len(requested')] = Top.url
                  /\ visited' = visited \cup {Top.url})
           /\ NestedCalls(stack'))]_vars

C20_Witness ==
    /\ Done
    /\ world.tree = "sib"
    /\ Len(requested) = 5
    /\ requested[2].path = "d1"
    /\ requested[5].path = "/"
    /\ nDone["t1"] = 2

====
